---- MODULE Spec2Model ----
(***************************************************************************)
(* A model of pyacoustid (src/acoustid.py): the rate-limited request       *)
(* pipeline (_rate_limit, _api_request), the facade operations built on it *)
(* (lookup, submit, get_submission_status, track_by_mbid), the lookup      *)
(* response parser (parse_lookup_result) and the fpcalc output parser      *)
(* (_fingerprint_file_fpcalc).                                             *)
(*                                                                         *)
(* Time is counted in whole ticks of time.time(); the clock never runs     *)
(* backwards and time.sleep(d) returns no earlier than d after the call.   *)
(* A JSON object or Python dict is a function from its keys; a formatted   *)
(* message is its format string with the values formatted into it.         *)
(***************************************************************************)
EXTENDS Integers, Sequences, FiniteSets, TLC

VARIABLES
    now,               \* the value time.time() returns
    REQUEST_INTERVAL,  \* module-level pacing interval, in ticks
    API_BASE_URL,      \* module-level base URL of the service
    last_call,         \* _rate_limit.last_call
    lock,              \* _rate_limit.lock: the set of threads holding it
    pc,                \* per thread: its position in the facade call
    since_last_call,   \* per thread: the local since_last_call
    wake,              \* per thread: when its time.sleep returns
    slept,             \* per thread: whether this invocation called time.sleep
    starts,            \* history: the values written to last_call, in order
    last_end,          \* history: when the wrapped operation last ended
    ncalls,            \* facade calls made so far
    call,              \* per thread: the facade call it is in (op, arguments)
    records,           \* per thread: the caller's submission records, as they now are
    request,           \* per thread: the url and params handed to _api_request
    resp,              \* per thread: what session.post did (raised, or a body)
    result,            \* per thread: how its last facade call ended
    nrequests,         \* HTTP requests posted so far
    data,              \* parse_lookup_result: the decoded response it was given
    gen,               \* parse_lookup_result: the generator it returned
    emitted,           \* parse_lookup_result: the tuples the consumer has received
    raised,            \* parse_lookup_result: what advancing the generator raised
    proc,              \* _fingerprint_file_fpcalc: what running fpcalc did
    fpcalc_result,     \* _fingerprint_file_fpcalc: how the call ended
    fcall,             \* fingerprint: the arguments of the call, and what the engine will do
    fpc,               \* fingerprint: the position in the call
    position,          \* fingerprint: the local position
    taken,             \* fingerprint: blocks taken from pcmiter so far
    fed,               \* fingerprint: the blocks fper.feed accepted, in order
    finished,          \* fingerprint: calls of fper.finish so far
    fingerprint_result, \* fingerprint: how the call ended
    url_args           \* history: the arguments of the set_base_url calls so far

limiterVars == <<last_call, lock, since_last_call, wake, slept, starts, last_end>>

callVars == <<call, records, request, resp, result>>

configVars == <<REQUEST_INTERVAL, API_BASE_URL>>

requestVars == <<now, configVars, pc, ncalls, nrequests, limiterVars, callVars>>

parseVars == <<data, gen, emitted, raised>>

fpcalcVars == <<proc, fpcalc_result>>

fingerVars == <<fcall, fpc, position, taken, fed, finished, fingerprint_result>>

libVars == <<fingerVars, url_args>>

vars == <<requestVars, parseVars, fpcalcVars, libVars>>

(* ------------------------------ bounds --------------------------------- *)

NumThreads == 2

MaxInterval == 2

MaxTicks == 3

MaxCalls == 2

MaxRecords == 2

MaxResults == 2

MaxRecordings == 2

MaxArtists == 2

MaxMbids == 2

MaxLines == 3

MaxBlocks == 3

MaxSeconds == 1

MaxSets == 2

MaxDuration == 120

Threads == 1..NumThreads

\* time.time() at import: seconds since the epoch, far more than any interval.
StartTime == MaxInterval + 1

MaxTime == StartTime + MaxTicks

(* --------------------------- Python values ------------------------------ *)

None == "None"

EmptyDict == [k \in {} |-> None]

\* key in d
Has(d, k) == k \in DOMAIN d

\* d.get(k)
Get(d, k) == IF Has(d, k) THEN d[k] ELSE None

\* A float counts tenths, an int counts units.
Float(tenths) == [t |-> "float", x |-> tenths]

Integer(n) == [t |-> "int", x |-> n]

\* Mutant: the number is kept as it is.
NotTruncated(x) == x

\* int(x): truncation of a non-negative number.
int(x) == IF x.t = "int" THEN x ELSE Integer(x.x \div 10)

Digit == <<"0", "1", "2", "3", "4", "5", "6", "7", "8", "9">>

\* "{0}".format(n) for a natural number n.
RECURSIVE NumStr(_)
NumStr(n) == IF n < 10 THEN Digit[n + 1] ELSE NumStr(n \div 10) \o Digit[(n % 10) + 1]

\* The timeout argument: None, or a number of seconds.
NoTimeout == [given |-> FALSE]

Timeout(n) == [given |-> TRUE, secs |-> n]

\* "{0}".format(timeout)
TimeoutStr(timeout) == IF timeout.given THEN NumStr(timeout.secs) ELSE None

\* How a call ends.
Raise(exc) == [kind |-> "raise", exc |-> exc]

Return(value) == [kind |-> "return", value |-> value]

NoResult == [kind |-> "none"]

NoCall == [op |-> None]

NoRequest == [url |-> None]

NoResp == [kind |-> "none"]

(* ----------------------------- exceptions ------------------------------- *)

\* An HTTP response body handed to WebServiceError; no call site hands one.
NoResponse == [given |-> FALSE]

Unset == "unset"

\* WebServiceError.__init__(message, response=None): the message and code of a
\* JSON error body replace the fallback message; code stays unset otherwise.
WebServiceError(message, response) ==
    LET usable == response.given /\ response.json /\ Has(response.data, "error")
        error == response.data["error"]
    IN  [type |-> "WebServiceError",
         message |-> IF usable /\ Has(error, "message")
                     THEN [fmt |-> "{0}", args |-> <<error["message"]>>]
                     ELSE message,
         code |-> IF usable /\ Has(error, "code") THEN error["code"] ELSE Unset]

FingerprintSubmissionError(text) ==
    [type |-> "FingerprintSubmissionError", message |-> [fmt |-> text, args |-> <<>>]]

\* The KeyError of d[key] for a missing key.
KeyError(key) == [type |-> "KeyError", message |-> [fmt |-> "{0!r}", args |-> <<key>>]]

(* ---------------------------- _api_request ------------------------------ *)

\* The exception classes of requests that session.post raises, each with its
\* base classes.
Bases(cls) ==
    CASE cls = "ReadTimeout" -> {"Timeout"}
      [] cls = "ConnectTimeout" -> {"ConnectionError", "Timeout"}
      [] cls = "Timeout" -> {"RequestException"}
      [] cls = "ConnectionError" -> {"RequestException"}
      [] OTHER -> {}

RECURSIVE IsSubclass(_, _)
IsSubclass(cls, of) == cls = of \/ \E b \in Bases(cls) : IsSubclass(b, of)

\* The except clauses of _api_request, in the order they are written.
Handlers == <<"RequestException", "ReadTimeout">>

\* The first except clause that matches an exception of class cls (0: none).
Handler(cls) ==
    LET matching == {i \in 1..Len(Handlers) : IsSubclass(cls, Handlers[i])}
    IN  IF matching = {} THEN 0
        ELSE CHOOSE i \in matching : \A j \in matching : i <= j

\* The body of _api_request, given what session.post did.
ApiRequest(posted, timeout) ==
    IF posted.kind = "raise"
    THEN CASE Handler(posted.cls) = 1 ->
                Raise(WebServiceError([fmt |-> "HTTP request failed: {0}",
                                       args |-> <<posted.text>>], NoResponse))
           [] Handler(posted.cls) = 2 ->
                Raise(WebServiceError([fmt |-> "HTTP request timed out ({0}s)",
                                       args |-> <<TimeoutStr(timeout)>>], NoResponse))
           [] OTHER -> Raise([type |-> posted.cls,
                              message |-> [fmt |-> "{0}", args |-> <<posted.text>>]])
    ELSE IF ~posted.json
         THEN Raise(WebServiceError([fmt |-> "response is not valid JSON",
                                     args |-> <<>>], NoResponse))
         ELSE Return(posted.data)

(* ------------------------- endpoint configuration ----------------------- *)

DefaultBaseUrl == "http://api.acoustid.org/v2/"

\* The URLs set_base_url is given.
Urls == {"", "http://h", "http://h/", "http://h//"}

\* url.endswith(c), for the URLs above: some URL followed by c makes url.
EndsWith(u, c) == \E stem \in Urls : u = stem \o c

\* set_base_url(url), for some url of U: a "/" is added to a url that does not
\* end in one, and the result is the new base.
SetBaseUrl(U) ==
    /\ Len(url_args) < MaxSets
    /\ \E u \in U :
          /\ API_BASE_URL' = (IF ~EndsWith(u, "/") THEN u \o "/" ELSE u)
          /\ url_args' = Append(url_args, u)
    /\ UNCHANGED <<now, REQUEST_INTERVAL, pc, ncalls, nrequests, limiterVars, callVars,
                   parseVars, fpcalcVars, fingerVars>>

_get_lookup_url == API_BASE_URL \o "lookup"

\* Mutant: the submit URL is computed once, at import.
StaleSubmitUrl == DefaultBaseUrl \o "submit"

_get_submit_url == API_BASE_URL \o "submit"

_get_submission_status_url == API_BASE_URL \o "submission_status"

_get_track_by_mbid_url == API_BASE_URL \o "track/list_by_mbid"

(* --------------------------- facade operations -------------------------- *)

\* What a facade operation does before _api_request: it raises, or it has a
\* request to make.
Request(url, params) == [kind |-> "request", url |-> url, params |-> params]

\* lookup: the request parameters.
Lookup(c) ==
    Request(_get_lookup_url,
            [format |-> "json", client |-> c.apikey, duration |-> int(c.duration),
             fingerprint |-> c.fingerprint, meta |-> c.meta])

\* Mutant: only the duration is required.
DurationPresent(d) == Has(d, "duration")

\* submit: the test that lets a record through.
RequiredPresent(d) == Has(d, "duration") /\ Has(d, "fingerprint")

\* submit: the loop over the records, from the record at position i on. The
\* records before i are already truncated and flattened into args; ds is the
\* list the parameter data names.
RECURSIVE SubmitLoop(_, _, _)
SubmitLoop(ds, i, args) ==
    IF i > Len(ds)
    THEN [kind |-> "request", url |-> _get_submit_url, params |-> args, data |-> ds]
    ELSE IF ~RequiredPresent(ds[i])
         THEN [kind |-> "raise",
               exc |-> FingerprintSubmissionError("missing required parameters"),
               data |-> ds]
         ELSE LET d == [ds[i] EXCEPT !["duration"] = int(@)]
                  fields == [key \in {<<k, i - 1>> : k \in DOMAIN d} |-> d[key[1]]]
              IN  SubmitLoop([ds EXCEPT ![i] = d], i + 1, fields @@ args)

\* submit: a single dictionary is wrapped in a list.
Submit(c) ==
    SubmitLoop(IF c.data.kind = "dict" THEN <<c.data.v>> ELSE c.data.v, 1,
               (<<"format">> :> "json") @@ (<<"client">> :> c.apikey)
                   @@ (<<"user">> :> c.userkey))

GetSubmissionStatus(c) ==
    Request(_get_submission_status_url,
            [format |-> "json", client |-> c.apikey, id |-> c.submission_id])

\* track_by_mbid: anything but a str is a batch.
Batch(c) == c.release_ids.kind # "str"

TrackByMbid(c) ==
    Request(_get_track_by_mbid_url,
            [format |-> "json", mbid |-> c.release_ids.v,
             disabled |-> IF c.disabled THEN "1" ELSE "0",
             batch |-> IF Batch(c) THEN "1" ELSE "0"])

\* match: fingerprint_file raises, or its duration and fingerprint are looked
\* up.
Match(c) ==
    IF c.fingerprinted.kind = "raise"
    THEN [kind |-> "raise", exc |-> c.fingerprinted.exc, data |-> <<>>]
    ELSE Lookup([apikey |-> c.apikey, duration |-> c.fingerprinted.value[1],
                 fingerprint |-> c.fingerprinted.value[2], meta |-> c.meta])

Facade(c) ==
    CASE c.op = "lookup" -> Lookup(c)
      [] c.op = "submit" -> Submit(c)
      [] c.op = "get_submission_status" -> GetSubmissionStatus(c)
      [] c.op = "track_by_mbid" -> TrackByMbid(c)
      [] c.op = "match" -> Match(c)

\* submit, track_by_mbid: the error raised for a response whose status is not ok.
ServiceError(response) ==
    IF /\ Has(response, "error")
       /\ Has(response["error"], "code")
       /\ Has(response["error"], "message")
    THEN WebServiceError([fmt |-> "error {0}: {1}",
                          args |-> <<response["error"]["code"],
                                     response["error"]["message"]>>], NoResponse)
    ELSE WebServiceError([fmt |-> "response: {0}", args |-> <<response>>], NoResponse)

IsDisabled(x) == Has(x, "disabled") /\ x["disabled"]

IsEnabled(x) == ~Has(x, "disabled") \/ ~x["disabled"]

Ids(tracks) == [i \in 1..Len(tracks) |-> tracks[i]["id"]]

\* track_by_mbid: one track list, as the disabled flag asks for it.
TrackIds(tracks, disabled) ==
    IF disabled
    THEN <<Ids(SelectSeq(tracks, IsEnabled)), Ids(SelectSeq(tracks, IsDisabled))>>
    ELSE Ids(tracks)

\* track_by_mbid: the dict comprehension over the response's mbids; a later
\* entry with the same mbid replaces an earlier one.
MbidMap(mbids, disabled) ==
    [k \in {mbids[i]["mbid"] : i \in 1..Len(mbids)} |->
        LET last == CHOOSE i \in 1..Len(mbids) :
                        /\ mbids[i]["mbid"] = k
                        /\ \A j \in 1..Len(mbids) : mbids[j]["mbid"] = k => j <= i
        IN  TrackIds(mbids[last]["tracks"], disabled)]

TrackByMbidResult(c, response) ==
    IF Get(response, "status") # "ok" THEN Raise(ServiceError(response))
    ELSE IF Batch(c)
         THEN IF Has(response, "mbids")
              THEN Return(MbidMap(response["mbids"], c.disabled))
              ELSE Raise(KeyError("mbids"))
         ELSE IF Has(response, "tracks")
              THEN Return(TrackIds(response["tracks"], c.disabled))
              ELSE Raise(KeyError("tracks"))

SubmitResult(response) ==
    IF Get(response, "status") # "ok" THEN Raise(ServiceError(response))
    ELSE Return(response)

\* Mutant: match checks the status of the response itself.
MatchResultChecked(c, response) ==
    IF Get(response, "status") # "ok" THEN Raise(ServiceError(response))
    ELSE IF c.parse THEN [kind |-> "parse", value |-> response]
    ELSE Return(response)

\* match, once lookup has returned: the response goes to parse_lookup_result,
\* or is returned as it is.
MatchResult(c, response) ==
    IF c.parse THEN [kind |-> "parse", value |-> response] ELSE Return(response)

\* What a facade operation makes of the outcome of _api_request.
AfterRequest(c, r) ==
    IF r.kind = "raise" THEN r
    ELSE CASE c.op = "submit" -> SubmitResult(r.value)
           [] c.op = "track_by_mbid" -> TrackByMbidResult(c, r.value)
           [] c.op = "match" -> MatchResult(c, r.value)
           [] OTHER -> r

(* --------------------------- _rate_limit -------------------------------- *)

\* Mutant: the lock is skipped when pacing is disabled.
LockSkippedWhenUnpaced == lock = {} \/ REQUEST_INTERVAL = 0

\* threading.Lock(): free when no thread holds it.
LockFree == lock = {}

\* Mutant: the sleep is one tick short.
SleepDurationShort(t) == REQUEST_INTERVAL - since_last_call[t] - 1

\* The argument of time.sleep in __call__.
SleepDuration(t) == REQUEST_INTERVAL - since_last_call[t]

\* Mutant: the test lets a call through one tick early.
MustSleepOffByOne(t) == since_last_call[t] < REQUEST_INTERVAL - 1

\* The test guarding time.sleep in __call__.
MustSleep(t) == since_last_call[t] < REQUEST_INTERVAL

\* __init__: last_call = 0.0, a fresh lock.
LimiterInit ==
    /\ last_call = 0
    /\ lock = {}
    /\ since_last_call = [t \in Threads |-> 0]
    /\ wake = [t \in Threads |-> 0]
    /\ slept = [t \in Threads |-> FALSE]
    /\ starts = <<>>
    /\ last_end = 0

\* Mutant: get_submission_status calls the undecorated function.
StatusUndecorated(c) == IF c.op = "get_submission_status" THEN "fun" ELSE "lock"

\* Where a call of _api_request begins: the name is bound to the _rate_limit
\* object, so every caller begins at "with self.lock".
Decorated(c) == "lock"

\* A thread calls facade operation c: the operation raises before any request,
\* or calls the decorated _api_request and reaches "with self.lock".
Invoke(t, c, limit) ==
    LET pre == Facade(c)
    IN  /\ pc[t] = "idle"
        /\ ncalls < limit
        /\ ncalls' = ncalls + 1
        /\ call' = [call EXCEPT ![t] = c]
        /\ records' = [records EXCEPT ![t] = IF c.op = "submit" THEN pre.data ELSE <<>>]
        /\ resp' = [resp EXCEPT ![t] = NoResp]
        /\ IF pre.kind = "raise"
           THEN /\ result' = [result EXCEPT ![t] = Raise(pre.exc)]
                /\ request' = [request EXCEPT ![t] = NoRequest]
                /\ UNCHANGED pc
           ELSE /\ result' = [result EXCEPT ![t] = NoResult]
                /\ request' = [request EXCEPT ![t] = [url |-> pre.url, params |-> pre.params]]
                /\ pc' = [pc EXCEPT ![t] = Decorated(c)]
        /\ UNCHANGED <<parseVars, fpcalcVars, libVars, now, configVars, nrequests, limiterVars>>

\* with self.lock: blocks until the lock is free, then takes it.
Acquire(t) ==
    /\ pc[t] = "lock"
    /\ LockFree
    /\ lock' = lock \cup {t}
    /\ pc' = [pc EXCEPT ![t] = "check"]
    /\ UNCHANGED <<parseVars, fpcalcVars, libVars, now, configVars, ncalls, nrequests, callVars, last_call,
                   since_last_call, wake, slept, starts, last_end>>

\* since_last_call = time.time() - self.last_call
Check(t) ==
    /\ pc[t] = "check"
    /\ since_last_call' = [since_last_call EXCEPT ![t] = now - last_call]
    /\ pc' = [pc EXCEPT ![t] = "compare"]
    /\ UNCHANGED <<parseVars, fpcalcVars, libVars, now, configVars, ncalls, nrequests, callVars, last_call, lock,
                   wake, slept, starts, last_end>>

\* if since_last_call < REQUEST_INTERVAL: time.sleep(...) is entered.
Compare(t) ==
    /\ pc[t] = "compare"
    /\ IF MustSleep(t)
       THEN /\ wake' = [wake EXCEPT ![t] = now + SleepDuration(t)]
            /\ slept' = [slept EXCEPT ![t] = TRUE]
            /\ pc' = [pc EXCEPT ![t] = "sleep"]
       ELSE /\ pc' = [pc EXCEPT ![t] = "update"]
            /\ UNCHANGED <<wake, slept>>
    /\ UNCHANGED <<parseVars, fpcalcVars, libVars, now, configVars, ncalls, nrequests, callVars, last_call, lock,
                   since_last_call, starts, last_end>>

\* time.sleep returns once the requested time has passed.
SleepReturn(t) ==
    /\ pc[t] = "sleep"
    /\ now >= wake[t]
    /\ pc' = [pc EXCEPT ![t] = "update"]
    /\ UNCHANGED <<parseVars, fpcalcVars, libVars, now, configVars, ncalls, nrequests, callVars, limiterVars>>

\* self.last_call = time.time(); the wrapped function begins.
Update(t) ==
    /\ pc[t] = "update"
    /\ last_call' = now
    /\ starts' = Append(starts, now)
    /\ pc' = [pc EXCEPT ![t] = "fun"]
    /\ UNCHANGED <<parseVars, fpcalcVars, libVars, now, configVars, ncalls, nrequests, callVars, lock,
                   since_last_call, wake, slept, last_end>>

\* session.post: the request goes out, and a response body comes back or an
\* exception of requests is raised. A timeout needs a timeout to have been set.
Post(t, posted) ==
    /\ pc[t] = "fun"
    /\ posted.kind = "raise" /\ IsSubclass(posted.cls, "Timeout") => call[t].timeout.given
    /\ nrequests' = nrequests + 1
    /\ resp' = [resp EXCEPT ![t] = posted]
    /\ pc' = [pc EXCEPT ![t] = "posted"]
    /\ UNCHANGED <<parseVars, fpcalcVars, libVars, now, configVars, ncalls, limiterVars, call, records, request, result>>

\* Mutant: the lock is released only when the wrapped function returns.
KeptOnRaise(t, outcome) == IF outcome.kind = "raise" THEN lock ELSE lock \ {t}

\* The lock after "with self.lock" is left, by return or by exception.
Unlocked(t, outcome) == lock \ {t}

\* _api_request returns or raises, the with statement releases the lock, and
\* the facade operation makes its result of the outcome.
Finish(t) ==
    /\ pc[t] = "posted"
    /\ result' = [result EXCEPT ![t] =
                      AfterRequest(call[t], ApiRequest(resp[t], call[t].timeout))]
    /\ lock' = Unlocked(t, ApiRequest(resp[t], call[t].timeout))
    /\ last_end' = now
    /\ since_last_call' = [since_last_call EXCEPT ![t] = 0]
    /\ wake' = [wake EXCEPT ![t] = 0]
    /\ slept' = [slept EXCEPT ![t] = FALSE]
    /\ pc' = [pc EXCEPT ![t] = "idle"]
    /\ UNCHANGED <<parseVars, fpcalcVars, libVars, now, configVars, ncalls, nrequests, last_call, starts, call,
                   records, request, resp>>

\* The clock advances.
Tick ==
    /\ now < MaxTime
    /\ now' = now + 1
    /\ UNCHANGED <<parseVars, fpcalcVars, libVars, configVars, pc, ncalls, nrequests, limiterVars, callVars>>

\* The clock goes on past the horizon for as long as a thread sleeps.
SleepElapse ==
    /\ now >= MaxTime
    /\ \E t \in Threads : pc[t] = "sleep" /\ now < wake[t]
    /\ now' = now + 1
    /\ UNCHANGED <<parseVars, fpcalcVars, libVars, configVars, pc, ncalls, nrequests, limiterVars, callVars>>

(* ------------------------- parse_lookup_result -------------------------- *)

\* sep.join(names), for at least one name.
RECURSIVE Join(_, _)
Join(sep, names) ==
    IF Len(names) = 1 THEN names[1]
    ELSE Join(sep, SubSeq(names, 1, Len(names) - 1)) \o sep \o names[Len(names)]

\* Mutant: only the first artist is named.
FirstArtistName(recording) ==
    IF Has(recording, "artists") /\ recording["artists"] # <<>>
    THEN recording["artists"][1]["name"]
    ELSE None

\* The artist_name of a recording: None unless it has a non-empty artists list.
ArtistName(recording) ==
    IF Has(recording, "artists") /\ recording["artists"] # <<>>
    THEN Join("; ", [i \in 1..Len(recording["artists"]) |-> recording["artists"][i]["name"]])
    ELSE None

\* The tuple yielded for one recording.
Yielded(score, recording) ==
    <<score, recording["id"], Get(recording, "title"), ArtistName(recording)>>

StopIteration == [type |-> "StopIteration"]

\* The generator body from some point on: the tuples it yields, in order, and
\* how it ends (StopIteration, or the exception that escapes).
Ran(yields, end) == [yields |-> yields, end |-> end]

\* The two loops, from the recording at position k of the result at position r
\* on (k = 0: the result is about to be entered), with the tuples yielded so
\* far.
RECURSIVE ParseFrom(_, _, _, _)
ParseFrom(results, r, k, yields) ==
    IF r > Len(results) THEN Ran(yields, StopIteration)
    ELSE IF k = 0
    THEN IF ~Has(results[r], "score") THEN Ran(yields, KeyError("score"))
         ELSE IF ~Has(results[r], "recordings") THEN ParseFrom(results, r + 1, 0, yields)
         ELSE ParseFrom(results, r, 1, yields)
    ELSE IF k > Len(results[r]["recordings"]) THEN ParseFrom(results, r + 1, 0, yields)
    ELSE IF ~Has(results[r]["recordings"][k], "id") THEN Ran(yields, KeyError("id"))
    ELSE ParseFrom(results, r, k + 1,
                   Append(yields, Yielded(results[r]["score"], results[r]["recordings"][k])))

\* The whole generator body of parse_lookup_result(d).
ParseBody(d) ==
    IF ~Has(d, "status") THEN Ran(<<>>, KeyError("status"))
    ELSE IF d["status"] # "ok"
    THEN Ran(<<>>, WebServiceError([fmt |-> "status: %s", args |-> <<d["status"]>>],
                                   NoResponse))
    ELSE IF ~Has(d, "results")
    THEN Ran(<<>>, WebServiceError([fmt |-> "results not included", args |-> <<>>],
                                   NoResponse))
    ELSE ParseFrom(d["results"], 1, 0, <<>>)

NoGenerator == [state |-> "none", pos |-> 0]

\* parse_lookup_result(d) is called, for some d of D: a generator object comes
\* back, and none of the body has run.
ParseCall(D) ==
    /\ gen.state = "none"
    /\ \E d \in D : data' = d
    /\ gen' = [state |-> "created", pos |-> 0]
    /\ UNCHANGED <<emitted, raised, requestVars, fpcalcVars, libVars>>

\* next() on the generator: the body runs to its next yield, or to its end.
Advance ==
    LET body == ParseBody(data)
    IN  /\ gen.state \in {"created", "suspended"}
        /\ IF gen.pos < Len(body.yields)
           THEN /\ emitted' = Append(emitted, body.yields[gen.pos + 1])
                /\ gen' = [state |-> "suspended", pos |-> gen.pos + 1]
                /\ UNCHANGED raised
           ELSE /\ raised' = Raise(body.end)
                /\ gen' = [state |-> "finished", pos |-> gen.pos]
                /\ UNCHANGED emitted
        /\ UNCHANGED <<data, requestVars, fpcalcVars, libVars>>

(* ----------------------- _fingerprint_file_fpcalc ----------------------- *)

FingerprintGenerationError(text, arg) ==
    [type |-> "FingerprintGenerationError", message |-> [fmt |-> text, args |-> arg]]

NoBackendError(text) ==
    [type |-> "NoBackendError", message |-> [fmt |-> text, args |-> <<>>]]

\* The exception classes _fingerprint_file_fpcalc can let out, with their bases.
ErrorBases(cls) ==
    CASE cls = "NoBackendError" -> {"FingerprintGenerationError"}
      [] cls = "FingerprintGenerationError" -> {"AcoustidError"}
      [] cls = "AcoustidError" -> {"Exception"}
      [] cls = "IndexError" -> {"LookupError"}
      [] cls = "LookupError" -> {"Exception"}
      [] OTHER -> {}

RECURSIVE IsA(_, _)
IsA(cls, of) == cls = of \/ \E b \in ErrorBases(cls) : IsA(b, of)

\* A line of output is the sequence of its pieces between "=" signs.
\* line.split(b'=', 1): the first piece and, if there is another, the rest.
Split1(line) ==
    IF Len(line) = 1 THEN <<line[1]>>
    ELSE <<line[1], Join("=", SubSeq(line, 2, Len(line)))>>

\* float(text): the number text is the decimal form of, if any.
Numeric(text) == \E n \in 0..MaxDuration : NumStr(n) = text

float(text) == Float(10 * (CHOOSE n \in 0..MaxDuration : NumStr(n) = text))

\* The loop over output.splitlines(), from line i on, with the duration and
\* fingerprint found so far.
RECURSIVE ParseLines(_, _, _, _)
ParseLines(output, i, duration, fp) ==
    IF i > Len(output)
    THEN IF duration = <<>> \/ fp = <<>>
         THEN Raise(FingerprintGenerationError("missing fpcalc output", <<>>))
         ELSE Return(<<duration[1], fp[1]>>)
    ELSE LET parts == Split1(output[i])
         IN  IF parts[1] = "DURATION"
             THEN IF Len(parts) < 2
                  THEN Raise([type |-> "IndexError",
                              message |-> [fmt |-> "list index out of range", args |-> <<>>]])
                  ELSE IF ~Numeric(parts[2])
                  THEN Raise(FingerprintGenerationError("fpcalc duration not numeric", <<>>))
                  ELSE ParseLines(output, i + 1, <<float(parts[2])>>, fp)
             ELSE IF parts[1] = "FINGERPRINT"
             THEN IF Len(parts) < 2
                  THEN Raise([type |-> "IndexError",
                              message |-> [fmt |-> "list index out of range", args |-> <<>>]])
                  ELSE ParseLines(output, i + 1, duration, <<parts[2]>>)
             ELSE ParseLines(output, i + 1, duration, fp)

\* _fingerprint_file_fpcalc after Popen and communicate did p.
FingerprintFileFpcalc(p) ==
    IF p.kind = "OSError"
    THEN IF p.errno = "ENOENT"
         THEN Raise(NoBackendError("fpcalc not found"))
         ELSE Raise(FingerprintGenerationError("fpcalc invocation failed: %s", <<p.errno>>))
    ELSE IF p.kind = "UnicodeEncodeError"
    THEN Raise(FingerprintGenerationError("argument encoding failed", <<>>))
    ELSE IF p.retcode # 0
    THEN Raise(FingerprintGenerationError("fpcalc exited with status %i", <<NumStr(p.retcode)>>))
    ELSE ParseLines(p.output, 1, <<>>, <<>>)

NoProc == [kind |-> "none"]

\* subprocess.Popen and communicate do one of P: fpcalc cannot be started, or
\* it runs and exits with its output captured.
RunFpcalc(P) ==
    /\ proc = NoProc
    /\ \E p \in P : proc' = p
    /\ UNCHANGED <<fpcalc_result, requestVars, parseVars, libVars>>

\* The rest of _fingerprint_file_fpcalc.
FinishFpcalc ==
    /\ proc # NoProc
    /\ fpcalc_result = NoResult
    /\ fpcalc_result' = FingerprintFileFpcalc(proc)
    /\ UNCHANGED <<proc, requestVars, parseVars, libVars>>

(* ----------------------------- fingerprint ------------------------------ *)

\* Maximum number of samples to decode.
EndPosition(c) == c.samplerate * c.channels * c.maxlength

\* Mutant: the loop goes on until the ceiling is passed.
CeilingPassed(p, endposition) == p > endposition

\* if position >= endposition: break
CeilingReached(p, endposition) == p >= endposition

\* len(block) // 2, a block being given by its length in bytes.
SamplesOf(block) == block \div 2

\* What fper.finish() returns: a fingerprint of the blocks fed.
Fingerprint(blocks) == [fingerprint_of |-> blocks]

NoFingerprintCall == [samplerate |-> 0]

\* fingerprint(samplerate, channels, pcmiter, maxlength) is called, for some
\* arguments of C, and starts the engine.
FingerprintCall(C) ==
    /\ fpc = "idle"
    /\ \E c \in C : fcall' = c
    /\ position' = 0
    /\ taken' = 0
    /\ fed' = <<>>
    /\ fpc' = "loop"
    /\ UNCHANGED <<finished, fingerprint_result, url_args, requestVars, parseVars, fpcalcVars>>

\* One round of "for block in pcmiter": the iterator is exhausted, or it gives
\* its next block, which is fed and counted; the engine may refuse it.
NextBlock ==
    /\ fpc = "loop"
    /\ IF taken = Len(fcall.pcmiter)
       THEN /\ fpc' = "finish"
            /\ UNCHANGED <<taken, fed, position, fingerprint_result>>
       ELSE LET block == fcall.pcmiter[taken + 1]
            IN  /\ taken' = taken + 1
                /\ IF fcall.engine = "feed fails"
                   THEN /\ fingerprint_result' =
                               Raise(FingerprintGenerationError("fingerprint calculation failed", <<>>))
                        /\ fpc' = "done"
                        /\ UNCHANGED <<fed, position>>
                   ELSE /\ fed' = Append(fed, block)
                        /\ position' = position + SamplesOf(block)
                        /\ fpc' = IF CeilingReached(position + SamplesOf(block), EndPosition(fcall))
                                  THEN "finish" ELSE "loop"
                        /\ UNCHANGED fingerprint_result
    /\ UNCHANGED <<fcall, finished, url_args, requestVars, parseVars, fpcalcVars>>

\* return fper.finish()
FinishFingerprint ==
    /\ fpc = "finish"
    /\ finished' = finished + 1
    /\ fingerprint_result' =
          IF fcall.engine = "finish fails"
          THEN Raise(FingerprintGenerationError("fingerprint calculation failed", <<>>))
          ELSE Return(Fingerprint(fed))
    /\ fpc' = "done"
    /\ UNCHANGED <<fcall, position, taken, fed, url_args, requestVars, parseVars, fpcalcVars>>

(* ------------------------------- inputs --------------------------------- *)

SeqsUpTo(S, n) == UNION {[1..k -> S] : k \in 0..n}

\* A key of a dict that may be absent: choice is <<>> or <<value>>.
Opt(k, choice) == IF choice = <<>> THEN EmptyDict ELSE (k :> choice[1])

BodyOk(d) == [kind |-> "body", json |-> TRUE, data |-> d]

NotJson == [kind |-> "body", json |-> FALSE]

Raised(cls) == [kind |-> "raise", cls |-> cls, text |-> "str(exc)"]

ErrorBody == [status |-> "error", error |-> [code |-> "4", message |-> "invalid API key"]]

SubmissionRecords ==
    {Opt("fingerprint", f) @@ Opt("duration", d) :
        f \in {<<>>, <<"AQAB">>}, d \in {<<>>, <<Float(127)>>}}
    \cup {[fingerprint |-> "AQAB", duration |-> Integer(12), mbid |-> "m1"]}

SubmitCall(ds) ==
    [op |-> "submit", apikey |-> "app", userkey |-> "user", data |-> ds,
     timeout |-> NoTimeout]

SubmitCalls ==
    {SubmitCall([kind |-> "dict", v |-> r]) : r \in SubmissionRecords}
    \cup {SubmitCall([kind |-> "list", v |-> l]) : l \in SeqsUpTo(SubmissionRecords, MaxRecords)}

SubmitPosted == {BodyOk([status |-> "ok"]), BodyOk(ErrorBody)}

\* One call of each facade operation, for the threads that share the limiter.
LookupCall(timeout) ==
    [op |-> "lookup", apikey |-> "app", fingerprint |-> "AQAB", duration |-> Float(127),
     meta |-> "recordings", timeout |-> timeout]

StatusCall(timeout) ==
    [op |-> "get_submission_status", apikey |-> "app", submission_id |-> "7",
     timeout |-> timeout]

TrackCall(release_ids, disabled, timeout) ==
    [op |-> "track_by_mbid", release_ids |-> release_ids, disabled |-> disabled,
     timeout |-> timeout]

SharedCalls ==
    {LookupCall(NoTimeout), StatusCall(NoTimeout),
     SubmitCall([kind |-> "dict", v |-> ("fingerprint" :> "AQAB") @@ ("duration" :> Integer(12))]),
     TrackCall([kind |-> "str", v |-> "m1"], FALSE, NoTimeout)}

SharedPosted == {BodyOk([status |-> "ok", tracks |-> <<>>]), Raised("ConnectionError")}

\* Lookup responses. A recording has no title and no artists, or a title and a
\* list of artists that is empty, has one artist, or has MaxArtists artists.
Artists(n) == [i \in 1..n |-> [name |-> "artist" \o NumStr(i)]]

Recordings ==
    {[id |-> "r"]}
    \cup {[id |-> "r" \o NumStr(n), title |-> "title" \o NumStr(n), artists |-> Artists(n)] :
             n \in {0, 1, MaxArtists}}

\* Lists of up to n different members of S.
DistinctSeqsUpTo(S, n) ==
    {q \in SeqsUpTo(S, n) : \A i, j \in 1..Len(q) : i # j => q[i] # q[j]}

\* The result at position r: a score that tells the positions apart, with or
\* without a recordings list.
Score(r) == Float(10 - r)

ResultsAt(r) ==
    {[score |-> Score(r)]}
    \cup {[score |-> Score(r), recordings |-> l] : l \in DistinctSeqsUpTo(Recordings, MaxRecordings)}

\* The number of recordings in a list of results.
RECURSIVE NumRecordings(_)
NumRecordings(results) ==
    IF results = <<>> THEN 0
    ELSE (IF Has(Head(results), "recordings") THEN Len(Head(results)["recordings"]) ELSE 0)
         + NumRecordings(Tail(results))

\* The lists of n results with up to MaxRecordings recordings between them.
RECURSIVE ResultListsOf(_)
ResultListsOf(n) ==
    IF n = 0 THEN {<<>>}
    ELSE {l \in {Append(q, x) : q \in ResultListsOf(n - 1), x \in ResultsAt(n)} :
             NumRecordings(l) <= MaxRecordings}

ResultLists == UNION {ResultListsOf(n) : n \in 0..MaxResults}

\* Payloads the data model rules out: a result without score, a recording
\* without id.
Broken ==
    {[status |-> "ok", results |-> <<[recordings |-> <<[id |-> "r"]>>]>>],
     [status |-> "ok", results |-> <<[score |-> Score(1), recordings |-> <<[title |-> "title0"]>>]>>]}

LookupResponses ==
    {[status |-> "ok", results |-> l] : l \in ResultLists}
    \cup {EmptyDict, [results |-> <<>>], [status |-> "ok"], [status |-> "error"],
          [status |-> "error", results |-> <<>>], ErrorBody}
    \cup Broken

\* track_by_mbid: what is asked and what the server may answer.
Mbids == {"m1", "m2"}

TrackLists ==
    {<<>>, <<[id |-> "t1"]>>, <<[id |-> "t1"], [id |-> "t2", disabled |-> TRUE]>>}

MbidEntries == {[mbid |-> m, tracks |-> l] : m \in Mbids, l \in TrackLists}

TrackCalls ==
    {TrackCall(ids, disabled, NoTimeout) :
        ids \in {[kind |-> "str", v |-> "m1"]}
                \cup {[kind |-> "list", v |-> l] : l \in SeqsUpTo(Mbids, MaxMbids)},
        disabled \in BOOLEAN}

TrackPosted ==
    {BodyOk([status |-> "ok", mbids |-> l]) : l \in SeqsUpTo(MbidEntries, MaxMbids)}
    \cup {BodyOk([status |-> "ok", tracks |-> l]) : l \in TrackLists}
    \cup {BodyOk(ErrorBody)}

\* Every operation, with and without a timeout, against every way the request
\* can end.
Timeouts == {NoTimeout, Timeout(5)}

ApiCalls ==
    UNION {{LookupCall(timeout), StatusCall(timeout),
            [SubmitCall([kind |-> "dict",
                         v |-> ("fingerprint" :> "AQAB") @@ ("duration" :> Float(127))])
                EXCEPT !.timeout = timeout],
            TrackCall([kind |-> "str", v |-> "m1"], FALSE, timeout)} : timeout \in Timeouts}

ApiPosted ==
    {Raised("ConnectionError"), Raised("ConnectTimeout"), Raised("ReadTimeout"), NotJson,
     BodyOk([status |-> "ok", results |-> <<>>, tracks |-> <<>>]),
     BodyOk(ErrorBody),
     BodyOk([status |-> "error", error |-> [message |-> "invalid API key"]]),
     BodyOk([status |-> "error"])}

\* fpcalc: a line of output is given by its pieces between "=" signs.
Lines ==
    {<<"DURATION", "120">>, <<"DURATION", "abc">>, <<"DURATION">>,
     <<"FINGERPRINT", "AQAB">>, <<"FINGERPRINT", "AQAB", "">>, <<"FINGERPRINT">>,
     <<"FILE", "a.mp3">>, <<"">>}

FpcalcOutcomes ==
    {[kind |-> "OSError", errno |-> e] : e \in {"ENOENT", "EACCES"}}
    \cup {[kind |-> "UnicodeEncodeError"]}
    \cup {[kind |-> "exit", retcode |-> c, output |-> o] :
             c \in {0, 1}, o \in SeqsUpTo(Lines, MaxLines)}

\* fingerprint: blocks of 1, 2 and 4 bytes, and an engine that works or fails.
BlockLengths == {1, 2, 4}

FingerprintCalls ==
    {[samplerate |-> r, channels |-> ch, maxlength |-> m, pcmiter |-> q, engine |-> e] :
        r \in {1, 2}, ch \in {1, 2}, m \in 0..MaxSeconds,
        q \in SeqsUpTo(BlockLengths, MaxBlocks),
        e \in {"works", "feed fails", "finish fails"}}

\* match: the file is fingerprinted or is not, and the service answers with a
\* complete response, an incomplete one or none.
MatchCalls ==
    {[op |-> "match", apikey |-> "app", path |-> "a.mp3", meta |-> "recordings",
      parse |-> p, fingerprinted |-> f, timeout |-> NoTimeout] :
        p \in BOOLEAN,
        f \in {Return(<<Float(1270), "AQAB">>),
               Raise(FingerprintGenerationError("audio could not be decoded", <<>>))}}

MatchPosted ==
    {BodyOk(d) : d \in {EmptyDict, [status |-> "error"], ErrorBody, [status |-> "ok"],
                        [status |-> "ok", results |-> <<>>],
                        [status |-> "ok",
                         results |-> <<[score |-> Score(1), recordings |-> <<[id |-> "r"]>>]>>]}}
    \cup {Raised("ConnectionError"), NotJson}

(* --------------------------- specifications ----------------------------- *)

CallInit ==
    /\ pc = [t \in Threads |-> "idle"]
    /\ ncalls = 0
    /\ call = [t \in Threads |-> NoCall]
    /\ records = [t \in Threads |-> <<>>]
    /\ request = [t \in Threads |-> NoRequest]
    /\ resp = [t \in Threads |-> NoResp]
    /\ result = [t \in Threads |-> NoResult]

\* parse_lookup_result has not been called.
ParseIdle ==
    /\ data = EmptyDict
    /\ gen = NoGenerator
    /\ emitted = <<>>
    /\ raised = NoResult

\* fpcalc has not been run.
FpcalcIdle ==
    /\ proc = NoProc
    /\ fpcalc_result = NoResult

\* fingerprint has not been called.
FingerprintIdle ==
    /\ fcall = NoFingerprintCall
    /\ fpc = "idle"
    /\ position = 0
    /\ taken = 0
    /\ fed = <<>>
    /\ finished = 0
    /\ fingerprint_result = NoResult

\* The module as imported: no request has been made.
Init ==
    /\ now = StartTime
    /\ REQUEST_INTERVAL \in 0..MaxInterval
    /\ API_BASE_URL = DefaultBaseUrl
    /\ LimiterInit
    /\ CallInit
    /\ nrequests = 0
    /\ ParseIdle
    /\ FpcalcIdle
    /\ FingerprintIdle
    /\ url_args = <<>>

\* The threads of T make up to limit calls drawn from Calls; session.post does
\* one of Posted.
Step(T, Calls, Posted, limit) ==
    \/ Tick
    \/ \E t \in T, c \in Calls : Invoke(t, c, limit)
    \/ \E t \in T : Acquire(t)
    \/ \E t \in T : Check(t)
    \/ \E t \in T : Compare(t)
    \/ \E t \in T : SleepReturn(t)
    \/ \E t \in T : Update(t)
    \/ \E t \in T, posted \in Posted : Post(t, posted)
    \/ \E t \in T : Finish(t)

\* Threads share the one decorated _api_request.
Next == Step(Threads, SharedCalls, SharedPosted, MaxCalls)

Spec == Init /\ [][Next]_vars

\* One caller makes one facade call, on a limiter that was never used or whose
\* one earlier request began and ended just now.
Caller == {t \in Threads : \A u \in Threads : t <= u}

CallerInit ==
    /\ now = StartTime
    /\ REQUEST_INTERVAL \in 0..MaxInterval
    /\ API_BASE_URL = DefaultBaseUrl
    /\ \E used \in BOOLEAN :
          /\ last_call = IF used THEN StartTime ELSE 0
          /\ starts = IF used THEN <<StartTime>> ELSE <<>>
          /\ last_end = IF used THEN StartTime ELSE 0
          /\ nrequests = IF used THEN Cardinality(Caller) ELSE 0
    /\ lock = {}
    /\ since_last_call = [t \in Threads |-> 0]
    /\ wake = [t \in Threads |-> 0]
    /\ slept = [t \in Threads |-> FALSE]
    /\ CallInit
    /\ ParseIdle
    /\ FpcalcIdle
    /\ FingerprintIdle
    /\ url_args = <<>>

SubmitNext == Step(Caller, SubmitCalls, SubmitPosted, Cardinality(Caller))

SpecSubmit == CallerInit /\ [][SubmitNext]_vars

\* parse_lookup_result is called on a decoded response and the generator it
\* returns is run to its end.
ParseNext ==
    \/ ParseCall(LookupResponses)
    \/ Advance

\* The module as imported and left alone: REQUEST_INTERVAL = 0.33, one unit of
\* the clock.
Imported == Init /\ REQUEST_INTERVAL = 1

SpecParse == Imported /\ [][ParseNext]_vars

\* One caller looks track identifiers up.
TrackNext == Step(Caller, TrackCalls, TrackPosted, Cardinality(Caller))

\* REQUEST_INTERVAL is left at 0.33, one unit of the clock.
TrackInit == CallerInit /\ REQUEST_INTERVAL = 1

SpecTrack == TrackInit /\ [][TrackNext]_vars

\* The decoded responses lookup has returned to a thread of T.
LookupResults(T) ==
    {result[t].value : t \in {u \in T : /\ call[u].op = "lookup"
                                         /\ pc[u] = "idle"
                                         /\ result[u].kind = "return"}}

\* One caller makes one call of any operation, and hands what lookup returned
\* to parse_lookup_result.
ApiNext ==
    \/ Step(Caller, ApiCalls, ApiPosted, Cardinality(Caller))
    \/ ParseCall(LookupResults(Caller))
    \/ Advance

SpecApi == CallerInit /\ [][ApiNext]_vars

\* fpcalc is run on a file once.
FpcalcNext ==
    \/ RunFpcalc(FpcalcOutcomes)
    \/ FinishFpcalc

SpecFpcalc == Imported /\ [][FpcalcNext]_vars

\* fingerprint is called once on a sequence of PCM blocks.
FingerprintNext ==
    \/ FingerprintCall(FingerprintCalls)
    \/ NextBlock
    \/ FinishFingerprint

SpecFingerprint == Imported /\ [][FingerprintNext]_vars

\* One caller makes a request, and the base URL is set at any moment, by it
\* before its call or by another thread during it.
UrlInit == CallerInit /\ REQUEST_INTERVAL = 1

UrlNext ==
    \/ Step(Caller, SharedCalls, SharedPosted, Cardinality(Caller))
    \/ SetBaseUrl(Urls)

SpecUrl == UrlInit /\ [][UrlNext]_vars

\* The threads of Spec under fair scheduling: time passes, a thread that can
\* take its next step takes it, and session.post ends by returning or raising.
Proceed(t) ==
    \/ Acquire(t)
    \/ Check(t)
    \/ Compare(t)
    \/ SleepReturn(t)
    \/ Update(t)
    \/ \E posted \in SharedPosted : Post(t, posted)
    \/ Finish(t)

\* Threads look recordings up and ask for the status of a submission, with the
\* longest interval, so that a thread that follows another sleeps.
LiveCalls == {LookupCall(NoTimeout), StatusCall(NoTimeout)}

LiveInit == Init /\ REQUEST_INTERVAL = MaxInterval

LiveNext ==
    \/ Step(Threads, LiveCalls, SharedPosted, MaxCalls)
    \/ SleepElapse

SpecLive ==
    /\ LiveInit
    /\ [][LiveNext]_vars
    /\ WF_vars(Tick)
    /\ WF_vars(SleepElapse)
    /\ \A t \in Threads : WF_vars(Proceed(t))

\* The responses match is about to hand to parse_lookup_result, in a thread
\* of T.
MatchResults(T) ==
    {result[t].value : t \in {u \in T : /\ call[u].op = "match"
                                         /\ pc[u] = "idle"
                                         /\ result[u].kind = "parse"}}

\* One caller calls match once, and runs the generator it gets.
MatchNext ==
    \/ Step(Caller, MatchCalls, MatchPosted, Cardinality(Caller))
    \/ ParseCall(MatchResults(Caller))
    \/ Advance

MatchInit == CallerInit /\ REQUEST_INTERVAL = 1

SpecMatch == MatchInit /\ [][MatchNext]_vars

(* ------------------------------- claims --------------------------------- *)

\* The threads inside the with block of __call__.
InsideLimiter == {t \in Threads : pc[t] \in {"check", "compare", "sleep", "update", "fun", "posted"}}

\* The threads inside the wrapped operation.
InsideWrapped == {t \in Threads : pc[t] \in {"fun", "posted"}}

\* C1: any two invocations of the rate-limited _api_request write last_call
\* (begin the wrapped operation) at least REQUEST_INTERVAL apart, whatever the
\* number of threads and however long the wrapped operation runs.
C1_StartsSpaced ==
    \A i, j \in 1..Len(starts) : i < j => starts[j] - starts[i] >= REQUEST_INTERVAL

\* Two invocations, the second begun exactly one positive interval after the
\* first, having slept while another thread was calling.
C1_Witness ==
    /\ REQUEST_INTERVAL > 0
    /\ Len(starts) >= 2
    /\ starts[2] - starts[1] = REQUEST_INTERVAL
    /\ \E t \in Threads : pc[t] = "fun" /\ slept[t]

\* C2: for every REQUEST_INTERVAL, zero included, at most one thread is inside
\* the with block, and so inside the wrapped operation, at any time; the
\* thread inside is the one holding the lock.
C2_MutualExclusion ==
    /\ Cardinality(InsideLimiter) <= 1
    /\ InsideLimiter = lock

\* With pacing disabled, one thread is inside the wrapped operation while
\* another waits for the lock.
C2_Witness ==
    /\ REQUEST_INTERVAL = 0
    /\ \E t, u \in Threads : t # u /\ pc[t] = "posted" /\ pc[u] = "lock"

\* C3, as stated: an invocation begins its wrapped operation no sooner than
\* REQUEST_INTERVAL after the previous invocation completed.
C3_SpacedFromCompletion ==
    \A t \in InsideWrapped :
        Len(starts) >= 2 => starts[Len(starts)] - last_end >= REQUEST_INTERVAL

\* C3, amended: the interval is counted from the moment the previous invocation
\* began (last_call). A thread about to write last_call is at least
\* REQUEST_INTERVAL past the previous start, it has slept exactly when it found
\* less than that elapsed, and a sleeping thread wakes no earlier than that.
C3_SpacedFromStart ==
    \A t \in Threads :
        /\ pc[t] = "update" =>
              /\ now - last_call >= REQUEST_INTERVAL
              /\ slept[t] <=> since_last_call[t] < REQUEST_INTERVAL
        /\ pc[t] = "sleep" => wake[t] >= last_call + REQUEST_INTERVAL

\* A second invocation that slept is about to begin, less than one interval
\* after the first one completed.
C3_Witness ==
    \E t \in Threads :
        /\ pc[t] = "update"
        /\ slept[t]
        /\ Len(starts) >= 1
        /\ now - last_end < REQUEST_INTERVAL

\* The records of a submit call, as the caller passed them.
Passed(c) == IF c.data.kind = "dict" THEN <<c.data.v>> ELSE c.data.v

Incomplete(d) == "fingerprint" \notin DOMAIN d \/ "duration" \notin DOMAIN d

\* C4: a submit call any of whose records lacks fingerprint or duration ends
\* with FingerprintSubmissionError, and it never enters the rate limiter,
\* hands no request to _api_request and posts none.
C4_IncompleteSubmitRaises ==
    \A t \in Threads :
        (call[t].op = "submit" /\ \E i \in 1..Len(Passed(call[t])) : Incomplete(Passed(call[t])[i]))
        => /\ result[t].kind = "raise"
           /\ result[t].exc.type = "FingerprintSubmissionError"
           /\ pc[t] = "idle"
           /\ t \notin lock
           /\ request[t] = NoRequest
           /\ resp[t] = NoResp

\* After an earlier request went out, a list whose first record is complete and
\* whose second lacks a key was refused; the request count still stands where
\* it stood.
C4_Witness ==
    \E t \in Threads :
        /\ call[t].op = "submit"
        /\ call[t].data.kind = "list"
        /\ Len(call[t].data.v) = 2
        /\ ~Incomplete(call[t].data.v[1])
        /\ Incomplete(call[t].data.v[2])
        /\ result[t].kind = "raise"
        /\ nrequests > 0
        /\ nrequests = Len(starts)
        /\ last_call > 0

\* The members of a list.
Range(q) == {q[i] : i \in DOMAIN q}

\* The generator has run to its end.
Exhausted == gen.state = "finished"

\* C5, as stated: for a response whose status is absent or is not "ok",
\* parse_lookup_result raises a WebServiceError whose message names the actual
\* status; for status "ok" without results it raises a WebServiceError.
C5_IncompleteRaisesWebServiceError ==
    (Exhausted /\ (~Has(data, "status") \/ data["status"] # "ok" \/ ~Has(data, "results")))
    => /\ raised.kind = "raise"
       /\ raised.exc.type = "WebServiceError"
       /\ (Has(data, "status") /\ data["status"] # "ok")
             => data["status"] \in Range(raised.exc.message.args)

\* A response without a status field ended the generator with a KeyError.
C5_Witness ==
    /\ Exhausted
    /\ ~Has(data, "status")
    /\ raised = Raise(KeyError("status"))

\* The responses of the data model: status "ok", a results list, a score in
\* every result, an id in every recording.
Conforming(d) ==
    /\ Has(d, "status") /\ d["status"] = "ok"
    /\ Has(d, "results")
    /\ \A r \in 1..Len(d["results"]) :
          /\ Has(d["results"][r], "score")
          /\ Has(d["results"][r], "recordings")
                => \A k \in 1..Len(d["results"][r]["recordings"]) :
                      Has(d["results"][r]["recordings"][k], "id")

\* The names, each after the first preceded by "; ".
RECURSIVE Joined(_)
Joined(names) ==
    IF names = <<>> THEN ""
    ELSE names[1] \o (IF Len(names) = 1 THEN "" ELSE "; " \o Joined(Tail(names)))

\* The number of recordings attached to a result.
Attached(res) == IF Has(res, "recordings") THEN Len(res["recordings"]) ELSE 0

\* The number of recordings attached to the results before position r.
RECURSIVE Before(_, _)
Before(results, r) ==
    IF r <= 1 THEN 0 ELSE Before(results, r - 1) + Attached(results[r - 1])

Returned(t) == pc[t] = "idle" /\ result[t].kind = "return"

\* C7, as stated: track_by_mbid with disabled=False returns, for a single
\* identifier string, the plain list of the response's track identifiers, and
\* for a list of identifiers a mapping whose key set is the set of input
\* identifiers, an identifier absent from the response mapped to the empty
\* list and any other to the track identifiers of its entry.
C7_KeysAreInputIdentifiers ==
    \A t \in Threads :
        (call[t].op = "track_by_mbid" /\ ~call[t].disabled /\ Returned(t)) =>
            IF call[t].release_ids.kind = "str"
            THEN LET tracks == resp[t].data["tracks"]
                 IN  result[t].value = [i \in 1..Len(tracks) |-> tracks[i]["id"]]
            ELSE LET ids == Range(call[t].release_ids.v)
                     sent == resp[t].data["mbids"]
                     mapping == result[t].value
                 IN  /\ DOMAIN mapping = ids
                     /\ \A id \in ids :
                           /\ (\A i \in 1..Len(sent) : sent[i]["mbid"] # id) => mapping[id] = <<>>
                           /\ \A i \in 1..Len(sent) :
                                 (sent[i]["mbid"] = id /\ \A j \in (i + 1)..Len(sent) : sent[j]["mbid"] # id)
                                 => mapping[id] = [n \in 1..Len(sent[i]["tracks"]) |->
                                                      sent[i]["tracks"][n]["id"]]

\* Two identifiers were asked about, the response has an entry for one of
\* them, and the mapping returned has that one key.
C7_Witness ==
    \E t \in Threads :
        /\ call[t].op = "track_by_mbid" /\ ~call[t].disabled /\ Returned(t)
        /\ call[t].release_ids = [kind |-> "list", v |-> <<"m1", "m2">>]
        /\ resp[t].data["mbids"] = <<[mbid |-> "m1", tracks |-> <<[id |-> "t1"]>>]>>
        /\ result[t].value = ("m1" :> <<"t1">>)

\* The call of t ended in a WebServiceError.
RaisedWebServiceError(t) ==
    /\ pc[t] = "idle"
    /\ result[t].kind = "raise"
    /\ result[t].exc.type = "WebServiceError"

\* C8, as stated: when a timeout was specified and the HTTP request times out
\* (session.post raises ReadTimeout), _api_request raises a WebServiceError
\* whose message is not the generic transport-failure message and names the
\* timeout value.
C8_TimeoutNamed ==
    \A t \in Threads :
        (/\ pc[t] = "idle"
         /\ resp[t].kind = "raise"
         /\ resp[t].cls = "ReadTimeout"
         /\ call[t].timeout.given)
        => /\ RaisedWebServiceError(t)
           /\ result[t].exc.message.fmt # "HTTP request failed: {0}"
           /\ TimeoutStr(call[t].timeout) \in Range(result[t].exc.message.args)

\* A request with a timeout of 5 seconds timed out, and the error raised has
\* the transport-failure message around the text of the exception.
C8_Witness ==
    \E t \in Threads :
        /\ resp[t] = Raised("ReadTimeout")
        /\ call[t].timeout = Timeout(5)
        /\ RaisedWebServiceError(t)
        /\ result[t].exc.message = [fmt |-> "HTTP request failed: {0}", args |-> <<"str(exc)">>]

\* A decoded payload with an error object that has a code and a message.
HasError(d) ==
    /\ Has(d, "error")
    /\ Has(d["error"], "code")
    /\ Has(d["error"], "message")

\* exc is a WebServiceError that carries the code and the message of error, in
\* its code and message fields or inside its message.
Surfaces(exc, error) ==
    /\ exc.type = "WebServiceError"
    /\ \/ exc.code = error["code"]
       \/ /\ exc.message.fmt = "error {0}: {1}"
          /\ error["code"] \in Range(exc.message.args)
    /\ \/ exc.message = [fmt |-> "{0}", args |-> <<error["message"]>>]
       \/ /\ exc.message.fmt = "error {0}: {1}"
          /\ error["message"] \in Range(exc.message.args)

\* C9, as stated: for every network operation, a JSON payload with an error
\* object that has code and message ends in a WebServiceError that surfaces
\* that code and that message: submit, get_submission_status and track_by_mbid
\* raise it themselves, lookup's payload raises it in parse_lookup_result.
C9_ServiceErrorSurfaced ==
    /\ \A t \in Threads :
          (/\ pc[t] = "idle"
           /\ call[t].op \in {"submit", "get_submission_status", "track_by_mbid"}
           /\ resp[t].kind = "body" /\ resp[t].json /\ HasError(resp[t].data))
          => /\ result[t].kind = "raise"
             /\ Surfaces(result[t].exc, resp[t].data["error"])
    /\ (Exhausted /\ HasError(data))
          => /\ raised.kind = "raise"
             /\ Surfaces(raised.exc, data["error"])

\* get_submission_status was answered with an error payload and returned it.
C9_Witness ==
    \E t \in Threads :
        /\ call[t].op = "get_submission_status"
        /\ resp[t] = BodyOk(ErrorBody)
        /\ pc[t] = "idle"
        /\ result[t] = Return(ErrorBody)

\* What follows the first "=" of a line that has one.
RECURSIVE AfterEquals(_)
AfterEquals(line) ==
    IF Len(line) = 2 THEN line[2]
    ELSE AfterEquals(SubSeq(line, 1, Len(line) - 1)) \o "=" \o line[Len(line)]

\* fpcalc ran and _fingerprint_file_fpcalc has ended.
Parsed == proc.kind = "exit" /\ fpcalc_result # NoResult

\* A DURATION or FINGERPRINT line with no "=", a DURATION line whose value is
\* not a number, a line that gives key its value.
Malformed(line) == Len(line) = 1 /\ line[1] \in {"DURATION", "FINGERPRINT"}

NonNumeric(line) ==
    /\ Len(line) >= 2
    /\ line[1] = "DURATION"
    /\ \A n \in 0..MaxDuration : NumStr(n) # AfterEquals(line)

Gives(line, key) == Len(line) >= 2 /\ line[1] = key

\* C10, as stated: a non-zero exit code, a malformed line, a non-numeric
\* duration, or a duration or fingerprint missing after all lines raise
\* FingerprintGenerationError and no other type; a missing executable raises
\* NoBackendError; otherwise the result is the duration and the fingerprint of
\* the parsed lines.
C10_OnlyFingerprintGenerationError ==
    /\ (fpcalc_result # NoResult /\ proc.kind = "OSError" /\ proc.errno = "ENOENT")
          => fpcalc_result.kind = "raise" /\ fpcalc_result.exc.type = "NoBackendError"
    /\ Parsed =>
          LET output == proc.output
              bad == \/ proc.retcode # 0
                     \/ \E i \in 1..Len(output) : Malformed(output[i]) \/ NonNumeric(output[i])
                     \/ \A i \in 1..Len(output) : ~Gives(output[i], "DURATION")
                     \/ \A i \in 1..Len(output) : ~Gives(output[i], "FINGERPRINT")
          IN  IF bad
              THEN /\ fpcalc_result.kind = "raise"
                   /\ IsA(fpcalc_result.exc.type, "FingerprintGenerationError")
              ELSE /\ fpcalc_result.kind = "return"
                   /\ \E i, j \in 1..Len(output) :
                         /\ Gives(output[i], "DURATION")
                         /\ Gives(output[j], "FINGERPRINT")
                         /\ \A k \in (i + 1)..Len(output) : ~Gives(output[k], "DURATION")
                         /\ \A k \in (j + 1)..Len(output) : ~Gives(output[k], "FINGERPRINT")
                         /\ \E n \in 0..MaxDuration :
                               /\ NumStr(n) = AfterEquals(output[i])
                               /\ fpcalc_result.value[1] = Float(10 * n)
                         /\ fpcalc_result.value[2] = AfterEquals(output[j])

\* fpcalc exited with status 0 and its only line of output was DURATION with no
\* "=": an IndexError came out.
C10_Witness ==
    /\ proc = [kind |-> "exit", retcode |-> 0, output |-> <<<<"DURATION">>>>]
    /\ fpcalc_result.kind = "raise"
    /\ fpcalc_result.exc.type = "IndexError"
    /\ ~IsA("IndexError", "FingerprintGenerationError")

\* The samples of a list of blocks, two bytes to a sample.
RECURSIVE Samples(_)
Samples(blocks) ==
    IF blocks = <<>> THEN 0 ELSE (Head(blocks) \div 2) + Samples(Tail(blocks))

\* C11: the blocks fed are the first blocks of the sequence, in order, and no
\* block beyond them has been taken from it; no block was fed after a feed
\* brought the count to samplerate * channels * maxlength; position is the
\* count of what was fed; and with a working engine the call ends only after
\* the sequence is exhausted or the ceiling reached, with finish called
\* exactly once and its fingerprint, of exactly the blocks fed, returned.
C11_FeedStopsAtCeiling ==
    fpc # "idle" =>
        LET ceiling == fcall.samplerate * fcall.channels * fcall.maxlength
        IN  /\ Len(fed) <= Len(fcall.pcmiter)
            /\ fed = SubSeq(fcall.pcmiter, 1, Len(fed))
            /\ fcall.engine # "feed fails" => taken = Len(fed)
            /\ position = Samples(fed)
            /\ \A k \in 1..(Len(fed) - 1) : Samples(SubSeq(fed, 1, k)) < ceiling
            /\ finished <= 1
            /\ (fpc = "done" /\ fcall.engine = "works")
                  => /\ finished = 1
                     /\ fingerprint_result = Return(Fingerprint(fed))
                     /\ Len(fed) = Len(fcall.pcmiter) \/ Samples(fed) >= ceiling

\* A sequence of three blocks with more samples than the positive ceiling: the
\* call ended with a fingerprint after feeding fewer blocks than there are.
C11_Witness ==
    /\ fpc = "done"
    /\ fcall.engine = "works"
    /\ Len(fcall.pcmiter) = 3
    /\ fcall.samplerate * fcall.channels * fcall.maxlength > 0
    /\ Samples(fcall.pcmiter) > fcall.samplerate * fcall.channels * fcall.maxlength
    /\ Len(fed) = 2
    /\ taken = 2
    /\ finished = 1
    /\ fingerprint_result = Return(Fingerprint(fed))

\* C12: whatever the operation, a thread inside _api_request holds the one
\* lock alone and its start is the value of the one last_call; every request
\* posted, and every one about to be, followed its own write of last_call; and
\* the writes of last_call, by whichever operations and threads, are at least
\* REQUEST_INTERVAL apart.
C12_OneLimiterForAllOperations ==
    /\ \A t \in Threads :
          pc[t] \in {"fun", "posted"}
          => /\ lock = {t}
             /\ call[t].op \in {"lookup", "submit", "get_submission_status", "track_by_mbid"}
             /\ request[t] # NoRequest
             /\ Len(starts) >= 1
             /\ starts[Len(starts)] = last_call
    /\ \A t, u \in Threads :
          (pc[t] \in {"fun", "posted"} /\ pc[u] \in {"fun", "posted"}) => t = u
    /\ nrequests + Cardinality({t \in Threads : pc[t] = "fun"}) = Len(starts)
    /\ \A i \in 1..(Len(starts) - 1) : starts[i + 1] - starts[i] >= REQUEST_INTERVAL

\* Two threads have each made one call, to different endpoints; the request of
\* the first is done, and the second, having waited for the lock and slept, is
\* about to post exactly one interval after the first began.
C12_Witness ==
    \E t, u \in Threads :
        /\ t # u
        /\ ncalls = 2
        /\ call[t].op = "submit" /\ pc[t] = "idle" /\ result[t] # NoResult
        /\ call[u].op = "get_submission_status" /\ pc[u] = "fun" /\ slept[u]
        /\ request[t].url # request[u].url
        /\ REQUEST_INTERVAL > 0
        /\ Len(starts) = 2
        /\ starts[2] - starts[1] = REQUEST_INTERVAL
        /\ nrequests = 1

\* The URLs that end in "/", and the path of each operation's endpoint.
Slashed == {"/", "http://h/", "http://h//", "http://api.acoustid.org/v2/"}

Suffix(op) ==
    CASE op = "lookup" -> "lookup"
      [] op = "submit" -> "submit"
      [] op = "get_submission_status" -> "submission_status"
      [] op = "track_by_mbid" -> "track/list_by_mbid"

\* The base after the set_base_url calls in args: the default when there was
\* none, else the latest argument, with one "/" added unless it ends in one.
BaseAfter(args) ==
    IF args = <<>> THEN "http://api.acoustid.org/v2/"
    ELSE IF args[Len(args)] \in Slashed THEN args[Len(args)]
    ELSE args[Len(args)] \o "/"

\* A request that is begun goes to the base of the set_base_url calls so far,
\* followed by the path of its operation.
RequestUsesLatestBase ==
    [][\A t \in Threads :
          (pc[t] = "idle" /\ pc'[t] = "lock")
          => request'[t].url = BaseAfter(url_args) \o Suffix(call'[t].op)]_vars

\* The base and each of the four endpoint URLs are those of the latest
\* set_base_url call; none keeps an earlier base, and a URL that ends in "/"
\* is kept as given.
EndpointsFollowBase ==
    /\ API_BASE_URL = BaseAfter(url_args)
    /\ API_BASE_URL \in Slashed
    /\ _get_lookup_url = BaseAfter(url_args) \o "lookup"
    /\ _get_submit_url = BaseAfter(url_args) \o "submit"
    /\ _get_submission_status_url = BaseAfter(url_args) \o "submission_status"
    /\ _get_track_by_mbid_url = BaseAfter(url_args) \o "track/list_by_mbid"

\* C13: after any sequence of set_base_url calls, each of the four endpoint
\* URLs is the most recently set base, with one "/" added to a base that
\* lacked it and a base ending in "/" kept as given, followed by the path of
\* the endpoint; and the request begun next goes to that URL.
C13_LatestBaseUsed == []EndpointsFollowBase /\ RequestUsesLatestBase

\* The base was set to a URL ending in "/" and then to one without, and the
\* submit request made after that goes to the second, with the "/" added.
C13_Witness ==
    \E t \in Threads :
        /\ url_args = <<"http://h//", "http://h">>
        /\ call[t].op = "submit"
        /\ pc[t] = "lock"
        /\ request[t].url = "http://h/submit"
        /\ API_BASE_URL = "http://h/"

\* C14: a thread whose call has ended, by return or by exception, does not
\* hold the lock, and under fair scheduling every thread waiting at "with
\* self.lock" eventually begins its own wrapped operation.
C14_WaitersBegin ==
    /\ [](\A t \in Threads : pc[t] = "idle" => t \notin lock)
    /\ \A t \in Threads : (pc[t] = "lock") ~> (pc[t] = "fun")

\* The request of one thread has failed with a WebServiceError, and the other
\* thread has since begun its own wrapped operation.
C14_Witness ==
    \E t, u \in Threads :
        /\ t # u
        /\ ncalls = 2
        /\ pc[t] = "idle"
        /\ resp[t] = Raised("ConnectionError")
        /\ result[t].kind = "raise"
        /\ result[t].exc.type = "WebServiceError"
        /\ pc[u] = "fun"
        /\ slept[u]
        /\ lock = {u}
        /\ Len(starts) = 2
        /\ last_end < starts[2]

\* A response whose status is present and not "ok", or "ok" without results.
Invalid(d) ==
    /\ Has(d, "status")
    /\ d["status"] # "ok" \/ ~Has(d, "results")

\* match with parse=True, whatever payload the service answered with, hands
\* it to parse_lookup_result without raising; parse_lookup_result returns a
\* generator without raising and without having emitted anything; for a
\* payload with a bad status or no results the WebServiceError comes out when
\* the generator is first advanced, before any tuple.
RaisedOnFirstAdvance ==
    /\ \A t \in Threads :
          (/\ call[t].op = "match" /\ call[t].parse
           /\ pc[t] = "idle"
           /\ resp[t].kind = "body" /\ resp[t].json)
          => result[t] = [kind |-> "parse", value |-> resp[t].data]
    /\ gen.state # "none"
          => \E t \in Threads : call[t].op = "match" /\ resp[t] = BodyOk(data)
    /\ gen.state = "created" => raised = NoResult /\ emitted = <<>>
    /\ (gen.state # "none" /\ Invalid(data))
          => /\ gen.state \in {"created", "finished"}
             /\ emitted = <<>>
             /\ gen.pos = 0
             /\ Exhausted => /\ raised.kind = "raise"
                             /\ raised.exc.type = "WebServiceError"

\* A call of match posts a request only when it has posted none, and it has
\* posted one when it hands a response on.
OneRequestPerMatch ==
    \A t \in Threads :
        call[t].op = "match" /\ nrequests' # nrequests
        => /\ resp[t] = NoResp
           /\ resp'[t] # NoResp
           /\ nrequests' = nrequests + 1

\* C15: validation is deferred. Neither parse_lookup_result nor match with
\* parse=True raises WebServiceError for a bad status or missing results when
\* called; match returns after exactly one request; the WebServiceError comes
\* out when the returned generator is first advanced, before any tuple.
C15_ValidationDeferred == []RaisedOnFirstAdvance /\ [][OneRequestPerMatch]_vars

\* match has returned a generator over an error payload after one request,
\* and its first advance raised the WebServiceError.
C15_Witness ==
    \E t \in Threads :
        /\ call[t].op = "match" /\ call[t].parse
        /\ pc[t] = "idle"
        /\ result[t].kind = "parse"
        /\ resp[t] = BodyOk(ErrorBody)
        /\ data = ErrorBody
        /\ slept[t] = FALSE
        /\ Len(starts) = 2
        /\ Exhausted
        /\ emitted = <<>>
        /\ raised.exc.type = "WebServiceError"

\* The integer a duration is truncated to: a float is given in tenths.
Truncation(d) == IF d.t = "float" THEN [t |-> "int", x |-> d.x \div 10] ELSE d

\* C16: after submit, by return or by exception, the caller's records before
\* the first one that lacks fingerprint or duration have their duration
\* replaced by its integer truncation and every other field as it was; that
\* record and all after it are as the caller passed them.
C16_RecordsTruncatedInPlace ==
    \A t \in Threads :
        call[t].op = "submit" =>
            LET passed == Passed(call[t])
                now_ == records[t]
            IN  /\ Len(now_) = Len(passed)
                /\ \A i \in 1..Len(passed) :
                      IF \A j \in 1..i : ~Incomplete(passed[j])
                      THEN /\ DOMAIN now_[i] = DOMAIN passed[i]
                           /\ now_[i]["duration"] = Truncation(passed[i]["duration"])
                           /\ \A k \in DOMAIN passed[i] \ {"duration"} : now_[i][k] = passed[i][k]
                      ELSE now_[i] = passed[i]

\* A list of a complete record and a record without fingerprint was refused;
\* the first record's duration of 12.7 is now 12, the second is untouched.
C16_Witness ==
    \E t \in Threads :
        /\ call[t].op = "submit"
        /\ call[t].data.kind = "list"
        /\ Len(call[t].data.v) = 2
        /\ call[t].data.v[1] = [fingerprint |-> "AQAB", duration |-> Float(127)]
        /\ Incomplete(call[t].data.v[2])
        /\ result[t].kind = "raise"
        /\ result[t].exc.type = "FingerprintSubmissionError"
        /\ records[t][1] = [fingerprint |-> "AQAB", duration |-> Integer(12)]
        /\ records[t][2] = call[t].data.v[2]


====
